---- MODULE Spec2Model ----
(***************************************************************************)
(* The scientific calculator of client/src/pages/calculator.tsx as a state *)
(* machine.  Strings are sequences of one-character strings, so that the   *)
(* handlers' slicing, the substitution chain of calculateResult and the    *)
(* number <-> text conversions are computed character by character.        *)
(* Numbers are exact decimals (sign, digit sequence, decimal exponent).    *)
(***************************************************************************)
EXTENDS Integers, Sequences, FiniteSets, TLC

(***************************************************************************)
(* Bounds of the model.                                                    *)
(***************************************************************************)
\* longest expression an editing handler may produce
MaxLen == 2
\* significant digits kept by a division that does not terminate
DivDigits == 17
\* largest |integer exponent| evaluated by pow
MaxPow == 12
\* largest |decimal exponent| of a number the model computes
MaxExp == 300
\* largest |memory| the memory keys may produce, in halves
MaxMemHalves == 1

\* the value v bound to the parameter of F: a local constant, evaluated once
With(v, F(_)) == F(v)

(***************************************************************************)
(* Characters and strings.                                                 *)
(***************************************************************************)
\* the characters outside ASCII, named by their code points
TIMES == "U+00D7"
DIVIDE == "U+00F7"
MINUS == "U+2212"
PI == "U+03C0"
SQRT == "U+221A"
SUP2 == "U+00B2"

DigitChars == <<"0", "1", "2", "3", "4", "5", "6", "7", "8", "9">>

IsDigit(c) == \E k \in 1..10 : DigitChars[k] = c

DigitVal(c) == (CHOOSE k \in 1..10 : DigitChars[k] = c) - 1

DigitChar(d) == DigitChars[d + 1]

Letters ==
  {"a", "c", "e", "f", "g", "i", "l", "n", "o", "q", "r", "s", "t", "y",
   "F", "I", "N", "E", "p", "x"}

IsAlpha(c) == c \in Letters

\* s[a..b] as a sequence; empty when a > b
Sub(s, a, b) == IF a > b THEN <<>> ELSE SubSeq(s, a, b)

\* String.prototype.slice(0, -1)
DropLast(s) == IF Len(s) = 0 THEN <<>> ELSE SubSeq(s, 1, Len(s) - 1)

\* String.prototype.slice(-1)
LastChar(s) == IF Len(s) = 0 THEN <<>> ELSE <<s[Len(s)]>>

StartsWithAt(s, i, pat) ==
  /\ i + Len(pat) - 1 <= Len(s)
  /\ \A k \in 1..Len(pat) : s[i + k - 1] = pat[k]

\* String.prototype.replace with a global literal pattern: left to right,
\* non-overlapping, the replacement text is not rescanned
RECURSIVE ReplaceFrom(_, _, _, _)
ReplaceFrom(s, i, pat, rep) ==
  IF \A k \in i..Len(s) : s[k] # pat[1] THEN SubSeq(s, i, Len(s))
  ELSE IF StartsWithAt(s, i, pat)
       THEN rep \o ReplaceFrom(s, i + Len(pat), pat, rep)
       ELSE <<s[i]>> \o ReplaceFrom(s, i + 1, pat, rep)

ReplaceAll(s, pat, rep) == ReplaceFrom(s, 1, pat, rep)

\* String.prototype.trim, for the blank character
RECURSIVE TrimLeft(_)
TrimLeft(s) == IF Len(s) > 0 /\ s[1] = " " THEN TrimLeft(Tail(s)) ELSE s

RECURSIVE TrimRight(_)
TrimRight(s) ==
  IF Len(s) > 0 /\ s[Len(s)] = " " THEN TrimRight(DropLast(s)) ELSE s

Trim(s) == TrimRight(TrimLeft(s))

Includes(s, c) == \E k \in 1..Len(s) : s[k] = c

(***************************************************************************)
(* Natural numbers as big-endian digit sequences.                          *)
(***************************************************************************)
RECURSIVE StripLead(_)
StripLead(d) == IF Len(d) > 0 /\ d[1] = 0 THEN StripLead(Tail(d)) ELSE d

RECURSIVE StripTrail(_)
StripTrail(d) ==
  IF Len(d) > 0 /\ d[Len(d)] = 0 THEN StripTrail(DropLast(d)) ELSE d

Zeros(n) == [k \in 1..n |-> 0]

PadLeft(d, n) == IF Len(d) >= n THEN d ELSE Zeros(n - Len(d)) \o d

\* -1, 0, 1 as a < b, a = b, a > b; leading zeros allowed
RECURSIVE CmpSame(_, _, _)
CmpSame(a, b, i) ==
  IF i > Len(a) THEN 0
  ELSE IF a[i] < b[i] THEN -1
  ELSE IF a[i] > b[i] THEN 1
  ELSE CmpSame(a, b, i + 1)

NatCmp(a, b) ==
  LET n == IF Len(a) > Len(b) THEN Len(a) ELSE Len(b)
  IN  CmpSame(PadLeft(a, n), PadLeft(b, n), 1)

\* digits of a + b (operands padded to the same length), right to left
RECURSIVE AddSame(_, _, _, _)
AddSame(a, b, i, carry) ==
  IF i = 0 THEN (IF carry = 0 THEN <<>> ELSE <<carry>>)
  ELSE LET t == a[i] + b[i] + carry
       IN  Append(AddSame(a, b, i - 1, t \div 10), t % 10)

NatAdd(a, b) ==
  LET n == IF Len(a) > Len(b) THEN Len(a) ELSE Len(b)
  IN  StripLead(AddSame(PadLeft(a, n), PadLeft(b, n), n, 0))

\* digits of a - b for a >= b
RECURSIVE SubSame(_, _, _, _)
SubSame(a, b, i, borrow) ==
  IF i = 0 THEN <<>>
  ELSE LET t == a[i] - b[i] - borrow
       IN  IF t < 0 THEN Append(SubSame(a, b, i - 1, 1), t + 10)
                    ELSE Append(SubSame(a, b, i - 1, 0), t)

NatSub(a, b) ==
  LET n == IF Len(a) > Len(b) THEN Len(a) ELSE Len(b)
  IN  StripLead(SubSame(PadLeft(a, n), PadLeft(b, n), n, 0))

RECURSIVE MulDigitFrom(_, _, _, _)
MulDigitFrom(a, k, i, carry) ==
  IF i = 0 THEN (IF carry = 0 THEN <<>> ELSE <<carry>>)
  ELSE LET t == a[i] * k + carry
       IN  Append(MulDigitFrom(a, k, i - 1, t \div 10), t % 10)

NatMulDigit(a, k) == StripLead(MulDigitFrom(a, k, Len(a), 0))

\* schoolbook product: acc * 10 + a * b[i], left to right over b
RECURSIVE MulFrom(_, _, _, _)
MulFrom(a, b, i, acc) ==
  IF i > Len(b) THEN acc
  ELSE MulFrom(a, b, i + 1,
               NatAdd(StripLead(Append(acc, 0)), NatMulDigit(a, b[i])))

NatMul(a, b) == MulFrom(a, b, 1, <<>>)

\* the natural number n as digits
RECURSIVE NatDigits(_)
NatDigits(n) == IF n = 0 THEN <<>> ELSE Append(NatDigits(n \div 10), n % 10)

\* digits as a machine integer (short sequences only)
RECURSIVE NatValue(_)
NatValue(d) ==
  IF Len(d) = 0 THEN 0 ELSE NatValue(DropLast(d)) * 10 + d[Len(d)]

\* largest q in 0..9 with q * b <= r
RECURSIVE QuotDigit(_, _, _)
QuotDigit(r, b, q) ==
  IF q = 0 \/ NatCmp(NatMulDigit(b, q), r) <= 0 THEN q
  ELSE QuotDigit(r, b, q - 1)

(***************************************************************************)
(* Values of the evaluator.  A finite number is an exact decimal           *)
(* (-1)^neg * ds * 10^ex with ds free of leading and trailing zeros (zero  *)
(* is the empty digit sequence).  The other kinds are what mathjs can hand *)
(* back or do instead: an infinity, NaN, a complex number, a non-numeric   *)
(* value (function, unit), a thrown error.  "unm" marks a value this model *)
(* does not compute (irrational results, implicit products, ...): states   *)
(* whose expression evaluates to it are left out of the state space.       *)
(***************************************************************************)
Zero == [k |-> "num", neg |-> FALSE, ds |-> <<>>, ex |-> 0]

MkNum(neg, ds, ex) ==
  With(StripLead(ds), LAMBDA a :
  With(StripTrail(a), LAMBDA b :
    IF Len(a) = 0 THEN Zero
    ELSE [k |-> "num", neg |-> neg, ds |-> b, ex |-> ex + (Len(a) - Len(b))]))

Inf(neg) == [k |-> "inf", neg |-> neg]
NaN == [k |-> "nan"]
Cplx == [k |-> "cplx"]
Sym == [k |-> "sym"]
Thrown == [k |-> "throw"]
Unm == [k |-> "unm"]

IsNum(v) == v.k = "num"
IsZero(v) == v.k = "num" /\ Len(v.ds) = 0

FromInt(n) == IF n < 0 THEN MkNum(TRUE, NatDigits(-n), 0)
                       ELSE MkNum(FALSE, NatDigits(n), 0)

\* exponent of the leading digit: |v| = d.ddd * 10^SciExp(v), v # 0
SciExp(v) == Len(v.ds) + v.ex - 1

\* the model computes only magnitudes far inside the range of a double
InRange(v) == IsZero(v) \/ (SciExp(v) <= MaxExp /\ SciExp(v) >= -MaxExp)

Ranged(v) == IF v.k = "num" /\ ~InRange(v) THEN Unm ELSE v

DecNeg(v) == IF IsZero(v) THEN v ELSE [v EXCEPT !.neg = ~v.neg]

DecAbs(v) == [v EXCEPT !.neg = FALSE]

\* digits of a and b at their common (smaller) exponent
Aligned(a, b) ==
  LET e == IF a.ex < b.ex THEN a.ex ELSE b.ex
  IN  [x |-> a.ds \o Zeros(a.ex - e), y |-> b.ds \o Zeros(b.ex - e), e |-> e]

\* -1, 0, 1 comparing |a| with |b|
CmpAbs(a, b) ==
  IF IsZero(a) THEN (IF IsZero(b) THEN 0 ELSE -1)
  ELSE IF IsZero(b) THEN 1
  ELSE IF SciExp(a) < SciExp(b) THEN -1
  ELSE IF SciExp(a) > SciExp(b) THEN 1
  ELSE With(Aligned(a, b), LAMBDA al : NatCmp(al.x, al.y))

DecAdd(a, b) ==
  With(Aligned(a, b), LAMBDA al :
  With(IF a.neg = b.neg THEN NatAdd(al.x, al.y)
       ELSE IF NatCmp(al.x, al.y) >= 0 THEN NatSub(al.x, al.y)
       ELSE NatSub(al.y, al.x), LAMBDA ds :
    MkNum(IF a.neg = b.neg \/ NatCmp(al.x, al.y) >= 0 THEN a.neg ELSE b.neg,
          ds, al.e)))

DecSub(a, b) == DecAdd(a, DecNeg(b))

DecMul(a, b) ==
  IF IsZero(a) \/ IsZero(b) THEN Zero
  ELSE MkNum(a.neg # b.neg, NatMul(a.ds, b.ds), a.ex + b.ex)

\* long division of the digits x by y: the quotient digits produced after
\* n steps (each consumes one digit of x, then zeros) until the remainder
\* is zero or DivDigits significant digits are out
RECURSIVE DivLoop(_, _, _, _, _, _)
DivLoop(x, y, r, i, out, sig) ==
  IF (i > Len(x) /\ Len(r) = 0) \/ sig >= DivDigits
  THEN [q |-> out, n |-> i - 1]
  ELSE With(StripLead(Append(r, IF i <= Len(x) THEN x[i] ELSE 0)), LAMBDA r1 :
       With(QuotDigit(r1, y, 9), LAMBDA q :
         DivLoop(x, y, NatSub(r1, NatMulDigit(y, q)), i + 1, Append(out, q),
                 IF sig > 0 \/ q > 0 THEN sig + 1 ELSE 0)))

\* a / b for b # 0
DecDiv(a, b) ==
  IF IsZero(a) THEN Zero
  ELSE With(DivLoop(a.ds, b.ds, <<>>, 1, <<>>, 0), LAMBDA d :
         MkNum(a.neg # b.neg, d.q, a.ex - b.ex + Len(a.ds) - d.n))

RECURSIVE DecPowNat(_, _)
DecPowNat(a, n) == IF n = 0 THEN FromInt(1) ELSE DecMul(a, DecPowNat(a, n - 1))

IsInteger(v) == IsZero(v) \/ v.ex >= 0

\* |v| as a machine integer when v is an integer of at most 3 digits,
\* otherwise MaxPow + 1
SmallAbs(v) ==
  IF IsZero(v) THEN 0
  ELSE IF Len(v.ds) + v.ex > 3 THEN MaxPow + 1
  ELSE NatValue(v.ds \o Zeros(v.ex))

\* floor of the square root of the machine integer n
RECURSIVE ISqrtFrom(_, _)
ISqrtFrom(n, r) == IF (r + 1) * (r + 1) > n THEN r ELSE ISqrtFrom(n, r + 1)

ISqrt(n) == ISqrtFrom(n, 0)

(***************************************************************************)
(* Numbers to text and back.                                               *)
(***************************************************************************)
DigitsStr(ds) == [k \in 1..Len(ds) |-> DigitChar(ds[k])]

\* an integer in decimal, "0" for zero, no sign for n >= 0
IntStr(n) ==
  IF n = 0 THEN <<"0">>
  ELSE IF n < 0 THEN <<"-">> \o DigitsStr(NatDigits(-n))
  ELSE DigitsStr(NatDigits(n))

\* exponent suffix "e+5" / "e-7"
ExpStr(e) == <<"e">> \o (IF e >= 0 THEN <<"+">> ELSE <<>>) \o IntStr(e)

SignStr(v) == IF v.neg THEN <<"-">> ELSE <<>>

\* the coefficients ds (leading digit at 10^e) rounded half up to n
\* digits; a carry out of the leading digit raises the exponent
RoundDigits(ds, e, n) ==
  IF Len(ds) <= n THEN [c |-> ds, e |-> e]
  ELSE IF ds[n + 1] < 5 THEN [c |-> SubSeq(ds, 1, n), e |-> e]
  ELSE With(NatAdd(SubSeq(ds, 1, n), <<1>>), LAMBDA up :
         IF Len(up) > n THEN [c |-> SubSeq(up, 1, n), e |-> e + 1]
                        ELSE [c |-> up, e |-> e])

PadRight(ds, n) == IF Len(ds) >= n THEN ds ELSE ds \o Zeros(n - Len(ds))

\* coefficients of v as splitNumber gives them: zero has the digit 0
Coeff(v) == IF IsZero(v) THEN <<0>> ELSE v.ds

CoeffExp(v) == IF IsZero(v) THEN 0 ELSE SciExp(v)

\* d.ddd with p digits in all, followed by the exponent
ExpNotation(v, p) ==
  With(RoundDigits(Coeff(v), CoeffExp(v), p), LAMBDA r :
  With(PadRight(r.c, p), LAMBDA c :
    SignStr(v) \o <<DigitChar(c[1])>>
    \o (IF Len(c) > 1 THEN <<".">> \o DigitsStr(Tail(c)) ELSE <<>>)
    \o ExpStr(r.e)))

\* Number.prototype.toExponential(f)
toExponential(v, f) == ExpNotation(v, f + 1)

\* index of the first "." of s, 0 when there is none
RECURSIVE IndexOfFrom(_, _, _)
IndexOfFrom(s, c, i) ==
  IF i > Len(s) THEN 0 ELSE IF s[i] = c THEN i ELSE IndexOfFrom(s, c, i + 1)

IndexOf(s, c) == IndexOfFrom(s, c, 1)

\* end of the run of digit characters of s that starts at i (i - 1 if none)
RECURSIVE DigitRunEnd(_, _)
DigitRunEnd(s, i) ==
  IF i <= Len(s) /\ IsDigit(s[i]) THEN DigitRunEnd(s, i + 1) ELSE i - 1

\* start of the run of "0" that ends at j
RECURSIVE ZeroRunStart(_, _)
ZeroRunStart(s, j) ==
  IF j >= 1 /\ s[j] = "0" THEN ZeroRunStart(s, j - 1) ELSE j + 1

\* mathjs format, notation auto:
\*   .replace(/((\.\d*?)(0+))($|e)/, digits !== '.' ? digits + e : e)
\* drops the zeros that end the fraction, and the "." when nothing is left
StripFractionZeros(s) ==
  With(IndexOf(s, "."), LAMBDA p :
  With(DigitRunEnd(s, p + 1), LAMBDA j :
  With(ZeroRunStart(s, j), LAMBDA z :
    IF p = 0 \/ j = p \/ z > j THEN s
    ELSE IF j < Len(s) /\ s[j + 1] # "e" THEN s
    ELSE (IF z = p + 1 THEN Sub(s, 1, p - 1) ELSE Sub(s, 1, z - 1))
         \o Sub(s, j + 1, Len(s)))))

\* mathjs toPrecision, the branch without exponent: the digits padded
\* to the precision, zeros prepended for a negative exponent, the point
\* after the units digit
FixedNotation(v, p) ==
  With(RoundDigits(Coeff(v), CoeffExp(v), p), LAMBDA r :
  With((IF r.e < 0 THEN Zeros(-r.e) ELSE <<>>)
       \o PadRight(PadRight(r.c, p), r.e + 1), LAMBDA c :
  With(IF r.e > 0 THEN r.e ELSE 0, LAMBDA dot :
    SignStr(v)
    \o (IF dot < Len(c) - 1
        THEN DigitsStr(SubSeq(c, 1, dot + 1)) \o <<".">>
             \o DigitsStr(SubSeq(c, dot + 2, Len(c)))
        ELSE DigitsStr(c)))))

\* mathjs toPrecision(value, precision): exponent notation when the
\* rounded exponent is below lowerExp or at least upperExp
LowerExp == -3
UpperExp == 5

toPrecision(v, p) ==
  With(RoundDigits(Coeff(v), CoeffExp(v), p).e, LAMBDA e :
    IF e < LowerExp \/ e >= UpperExp THEN ExpNotation(v, p)
    ELSE FixedNotation(v, p))

\* mathjs format(value, {precision}) of a finite number
format(v, p) == StripFractionZeros(toPrecision(v, p))

\* Number.prototype.toString of a finite number: the digits of the
\* number, positional for 10^-7 <= |v| < 10^21, else with an exponent
NumberToString(v) ==
  IF IsZero(v) THEN <<"0">>
  ELSE LET k == Len(v.ds)
           n == k + v.ex
       IN  SignStr(v) \o
           (IF k <= n /\ n <= 21 THEN DigitsStr(v.ds \o Zeros(n - k))
            ELSE IF 0 < n /\ n <= 21
                 THEN DigitsStr(SubSeq(v.ds, 1, n)) \o <<".">>
                      \o DigitsStr(SubSeq(v.ds, n + 1, k))
            ELSE IF -6 < n /\ n <= 0
                 THEN <<"0", ".">> \o DigitsStr(Zeros(-n) \o v.ds)
            ELSE <<DigitChar(v.ds[1])>>
                 \o (IF k > 1 THEN <<".">> \o DigitsStr(Tail(v.ds)) ELSE <<>>)
                 \o ExpStr(n - 1))

\* digits of the run of digit characters s[i..j]
DigitsOf(s, i, j) == [k \in 1..(j - i + 1) |-> DigitVal(s[i + k - 1])]

\* the longest numeric literal that starts s at i:
\*   digits [. digits] [e [+-] digits]  or  . digits [e ...]
\* as [ok, v, i (the index after it)]; the exponent is taken only when
\* digits follow it
ScanLiteral(s, i) ==
  With(DigitRunEnd(s, i), LAMBDA a :
  With(a + 1 <= Len(s) /\ s[a + 1] = ".", LAMBDA hasDot :
  With(IF hasDot THEN DigitRunEnd(s, a + 2) ELSE a, LAMBDA b :
  With(IF hasDot THEN DigitsOf(s, a + 2, b) ELSE <<>>, LAMBDA frac :
  With(IF hasDot /\ (a >= i \/ b > a + 1) THEN b ELSE a, LAMBDA mEnd :
  With(mEnd + 1 <= Len(s) /\ s[mEnd + 1] \in {"e", "E"}, LAMBDA hasE :
  With(hasE /\ mEnd + 2 <= Len(s) /\ s[mEnd + 2] \in {"+", "-"}, LAMBDA sgn :
  With(IF sgn THEN mEnd + 3 ELSE mEnd + 2, LAMBDA d0 :
  With(IF hasE THEN DigitRunEnd(s, d0) ELSE d0 - 1, LAMBDA d1 :
  With(hasE /\ d1 >= d0 /\ d1 - d0 < 4, LAMBDA hasExp :
  With(IF hasExp THEN NatValue(DigitsOf(s, d0, d1)) ELSE 0, LAMBDA eabs :
  With(IF sgn /\ s[mEnd + 2] = "-" THEN -eabs ELSE eabs, LAMBDA e :
    IF a < i /\ ~(hasDot /\ b > a + 1)
    THEN [ok |-> FALSE, v |-> NaN, i |-> i, longExp |-> FALSE]
    ELSE [ok |-> TRUE,
          v |-> MkNum(FALSE, DigitsOf(s, i, a) \o frac, e - Len(frac)),
          i |-> (IF hasExp THEN d1 ELSE mEnd) + 1,
          longExp |-> hasE /\ d1 >= d0 /\ ~hasExp]))))))))))))

\* parseFloat: an optional sign, then the longest literal; NaN otherwise
parseFloat(s) ==
  With(ScanLiteral(s, IF Len(s) > 0 /\ s[1] \in {"+", "-"} THEN 2 ELSE 1),
       LAMBDA r :
    IF ~r.ok THEN NaN
    ELSE IF r.longExp THEN Unm
    ELSE IF Len(s) > 0 /\ s[1] = "-" THEN DecNeg(r.v) ELSE r.v)

(***************************************************************************)
(* The evaluator: mathjs evaluate on the strings the calculator can hand   *)
(* it.  Parsing and evaluation are done in one pass; a parse yields        *)
(*   st  "ok", "syn" (mathjs throws a SyntaxError: it parses the whole     *)
(*       text before it evaluates any of it) or "giveup" (a construct the  *)
(*       model does not follow: the whole evaluation is unmodelled),       *)
(*   v   the value of the part parsed,                                     *)
(*   i   the index after it,                                               *)
(*   nt  the kind of node parsed: "const", "op" or "other".                *)
(***************************************************************************)
Parsed(v, i, nt) == [st |-> "ok", v |-> v, i |-> i, nt |-> nt]
SyntaxErr == [st |-> "syn", v |-> Thrown, i |-> 0, nt |-> "other"]
GiveUp == [st |-> "giveup", v |-> Unm, i |-> 0, nt |-> "other"]

CharAt(s, i) == IF i >= 1 /\ i <= Len(s) THEN s[i] ELSE ""

\* mathjs isDecimalMark(c, cNext)
IsDecimalMark(c, cNext) == c = "." /\ cNext \notin {"/", "*", "^"}

\* a NUMBER token starts at i
NumberStarts(s, i) ==
  \/ IsDigit(CharAt(s, i))
  \/ (CharAt(s, i) = "." /\ IsDigit(CharAt(s, i + 1))
      /\ CharAt(s, i + 1) \notin {"/", "*", "^"})

\* the binary operator token at i, with its length: "*", "/", "^" may
\* carry a leading "." (the element-wise operators, equal on numbers)
OpAt(s, i) ==
  LET c == CharAt(s, i)
      d == CharAt(s, i + 1)
  IN  IF c \in {"+", "-", "*", "/", "^"} THEN [op |-> c, len |-> 1]
      ELSE IF c = "." /\ d \in {"*", "/", "^"} THEN [op |-> d, len |-> 2]
      ELSE [op |-> "", len |-> 0]

\* the tokenizer's number branch at i (NumberStarts holds)
NumberToken(s, i) ==
  With(CharAt(s, i) = ".", LAMBDA lead :
  With(IF lead THEN i - 1 ELSE DigitRunEnd(s, i), LAMBDA a :
  With(lead \/ IsDecimalMark(CharAt(s, a + 1), CharAt(s, a + 2)), LAMBDA dot :
  With(IF dot THEN DigitRunEnd(s, a + 2) ELSE a, LAMBDA b :
  With(IF dot THEN DigitsOf(s, a + 2, b) ELSE <<>>, LAMBDA frac :
  With((IF lead THEN <<>> ELSE DigitsOf(s, i, a)) \o frac, LAMBDA ds :
  With(CharAt(s, b + 1) \in {"e", "E"}, LAMBDA isE :
  With(CharAt(s, b + 2), LAMBDA n1 :
  With(IF n1 \in {"+", "-"} THEN b + 3 ELSE b + 2, LAMBDA d0 :
  With(DigitRunEnd(s, d0), LAMBDA d1 :
    IF isE /\ (IsDigit(n1) \/ n1 \in {"+", "-"})
    THEN IF d1 < d0 THEN SyntaxErr
         ELSE IF IsDecimalMark(CharAt(s, d1 + 1), CharAt(s, d1 + 2))
              THEN SyntaxErr
         ELSE IF d1 - d0 >= 4 THEN GiveUp
         ELSE Parsed(Ranged(MkNum(FALSE, ds,
                                  (IF n1 = "-" THEN -1 ELSE 1)
                                    * NatValue(DigitsOf(s, d0, d1)) - Len(frac))),
                     d1 + 1, "const")
    ELSE IF isE /\ n1 = "." THEN SyntaxErr
    ELSE Parsed(MkNum(FALSE, ds, -Len(frac)), b + 1, "const")))))))))))

\* end of the identifier that starts at i
RECURSIVE NameEnd(_, _)
NameEnd(s, i) ==
  IF i <= Len(s) /\ (IsAlpha(s[i]) \/ IsDigit(s[i])) THEN NameEnd(s, i + 1)
  ELSE i - 1

Str(name) ==
  CASE name = "sin" -> <<"s", "i", "n">>
    [] name = "cos" -> <<"c", "o", "s">>
    [] name = "tan" -> <<"t", "a", "n">>
    [] name = "log" -> <<"l", "o", "g">>
    [] name = "ln" -> <<"l", "n">>
    [] name = "log10" -> <<"l", "o", "g", "1", "0">>
    [] name = "sqrt" -> <<"s", "q", "r", "t">>
    [] name = "pi" -> <<"p", "i">>
    [] name = "e" -> <<"e">>
    [] name = "i" -> <<"i">>
    [] name = "Infinity" -> <<"I", "n", "f", "i", "n", "i", "t", "y">>
    [] name = "NaN" -> <<"N", "a", "N">>
    [] name = "Error" -> <<"E", "r", "r", "o", "r">>
    [] name = "^2" -> <<"^", "2">>
    [] OTHER -> <<name>>

\* unary minus
Negate(v) ==
  CASE v.k = "num" -> DecNeg(v)
    [] v.k = "inf" -> Inf(~v.neg)
    [] OTHER -> v

\* Math.pow for an integer exponent of small magnitude
PowNum(a, b) ==
  IF ~IsInteger(b) \/ SmallAbs(b) > MaxPow \/ Len(a.ds) > DivDigits THEN Unm
  ELSE IF ~b.neg THEN Ranged(DecPowNat(a, SmallAbs(b)))
  ELSE IF IsZero(a) THEN Inf(FALSE)
  ELSE Ranged(DecDiv(FromInt(1), DecPowNat(a, SmallAbs(b))))

\* the arithmetic of two finite numbers, as JavaScript numbers behave
Arith(op, a, b) ==
  CASE op = "+" -> Ranged(DecAdd(a, b))
    [] op = "-" -> Ranged(DecSub(a, b))
    [] op = "*" -> Ranged(DecMul(a, b))
    [] op = "/" -> IF IsZero(b)
                   THEN (IF IsZero(a) THEN NaN ELSE Inf(a.neg))
                   ELSE Ranged(DecDiv(a, b))
    [] op = "^" -> PowNum(a, b)

\* a binary operator of mathjs on two values
BinOp(op, a, b) ==
  IF a.k = "unm" \/ b.k = "unm" THEN Unm
  ELSE IF a.k = "throw" \/ b.k = "throw" THEN Thrown
  ELSE IF a.k = "num" /\ b.k = "num" THEN Arith(op, a, b)
  ELSE IF a.k = "sym" /\ b.k = "sym"
       THEN (IF op \in {"+", "-"} THEN Sym
             ELSE IF op = "^" THEN Thrown ELSE Unm)
  ELSE IF a.k = "sym" /\ b.k = "num"
       THEN (IF op \in {"+", "-"} THEN Thrown
             ELSE IF op = "^" THEN Unm ELSE Sym)
  ELSE IF a.k = "num" /\ b.k = "sym"
       THEN (IF op \in {"*", "/"} THEN Sym ELSE Thrown)
  ELSE Unm

\* the root of a perfect square, when there is one
SqrtNum(a) ==
  With(IF a.ex % 2 # 0 THEN Append(a.ds, 0) ELSE a.ds, LAMBDA ds :
  With(IF a.ex % 2 # 0 THEN a.ex - 1 ELSE a.ex, LAMBDA ex :
  With(IF Len(ds) > 6 THEN 0 ELSE NatValue(ds), LAMBDA n :
  With(ISqrt(n), LAMBDA r :
    IF Len(ds) > 6 THEN Unm
    ELSE IF r * r = n THEN MkNum(FALSE, NatDigits(r), ex \div 2)
    ELSE Unm))))

\* a call of a function of mathjs with one argument
Call(name, a) ==
  IF a.k = "unm" THEN Unm
  ELSE IF a.k = "throw" THEN Thrown
  ELSE IF a.k # "num" THEN Unm
  ELSE CASE name = Str("sqrt") ->
              IF IsZero(a) THEN Zero ELSE IF a.neg THEN Cplx ELSE SqrtNum(a)
         [] name = Str("log10") ->
              IF IsZero(a) THEN Inf(TRUE)
              ELSE IF a.neg THEN Cplx
              ELSE IF a.ds = <<1>> THEN FromInt(a.ex)
              ELSE Unm
         [] name \in {Str("sin"), Str("tan")} ->
              IF IsZero(a) THEN Zero ELSE Unm
         [] name = Str("cos") -> IF IsZero(a) THEN FromInt(1) ELSE Unm
         [] OTHER -> Unm

KnownFunctions == {Str("sqrt"), Str("log10"), Str("sin"), Str("cos"), Str("tan")}

\* a symbol that is not called: the constants, or a value that is no
\* number (a function, a unit) or no value at all (an undefined symbol)
Symbol(name) ==
  IF name = Str("Infinity") THEN Inf(FALSE)
  ELSE IF name = Str("NaN") THEN NaN
  ELSE IF name \in {Str("e"), <<"E">>, Str("pi"), Str("i")} THEN Unm
  ELSE Sym

\* a "." in postfix position that is neither the start of a number nor of
\* an element-wise operator: a property accessor
AccessorAt(s, i) ==
  CharAt(s, i) = "." /\ ~NumberStarts(s, i) /\ OpAt(s, i).len = 0

\* "number / number" followed by a symbol or "(" (mathjs parseRule2)
Rule2At(s, r) ==
  /\ r.nt \in {"const", "op"}
  /\ CharAt(s, r.i) = "/"
  /\ NumberStarts(s, r.i + 1)
  /\ With(NumberToken(s, r.i + 1), LAMBDA t :
       t.st = "ok" /\ (IsAlpha(CharAt(s, t.i)) \/ CharAt(s, t.i) = "("))

RECURSIVE PAddSub(_, _), PAddSubFrom(_, _, _, _), PAddSubNext(_, _),
          PMulDiv(_, _), PMulDivFrom(_, _, _, _), PMulDivNext(_, _),
          PImplicit(_, _), PImplicitFrom(_, _, _, _), PImplicitNext(_, _),
          PUnary(_, _), PPow(_, _), PPowRest(_, _), PPrimary(_, _)

\* the node of the binary operator op applied to l and the operand r
\* parsed after it; the first operand of a chain comes with no operator
Join(op, l, r) ==
  IF op = "" \/ r.st # "ok" THEN r
  ELSE Parsed(BinOp(op, l.v, r.v), r.i, "op")

\* parseAddSubtract: an operand, then the operands that follow "+", "-"
PAddSub(s, i) == PAddSubFrom(s, SyntaxErr, "", i)

\* parseAddSubtract with the operators "+" and "-" grouping to the right
PAddSubFrom_RightAssociative(s, l, op, i) ==
  IF op = "" THEN PAddSubNext(s, PMulDiv(s, i))
  ELSE Join(op, l, PAddSub(s, i))

PAddSubFrom(s, l, op, i) == PAddSubNext(s, Join(op, l, PMulDiv(s, i)))

PAddSubNext(s, l) ==
  IF l.st = "ok" /\ CharAt(s, l.i) \in {"+", "-"}
  THEN PAddSubFrom(s, l, CharAt(s, l.i), l.i + 1)
  ELSE l

\* parseMultiplyDivide
PMulDiv(s, i) == PMulDivFrom(s, SyntaxErr, "", i)

PMulDivFrom(s, l, op, i) == PMulDivNext(s, Join(op, l, PImplicit(s, i)))

PMulDivNext(s, l) ==
  IF l.st = "ok" /\ OpAt(s, l.i).op \in {"*", "/"}
  THEN PMulDivFrom(s, l, OpAt(s, l.i).op, l.i + OpAt(s, l.i).len)
  ELSE l

\* the factor r of an implicit multiplication, alone when it is the
\* first, times the product l of the factors before it otherwise
ImplicitJoin(s, first, l, r) ==
  IF r.st # "ok" THEN r
  ELSE [st |-> "ok",
        v |-> IF Rule2At(s, r) THEN Unm
              ELSE IF first THEN r.v
              ELSE BinOp("*", l.v, r.v),
        i |-> r.i,
        nt |-> IF first THEN r.nt ELSE "op",
        last |-> r.nt]

\* parseImplicitMultiplication over parseRule2
PImplicit(s, i) == PImplicitFrom(s, TRUE, SyntaxErr, i)

PImplicitFrom(s, first, l, i) ==
  PImplicitNext(s, ImplicitJoin(s, first, l, PUnary(s, i)))

PImplicitNext(s, l) ==
  IF l.st # "ok" THEN l
  ELSE IF \/ IsAlpha(CharAt(s, l.i))
          \/ CharAt(s, l.i) = "("
          \/ (NumberStarts(s, l.i) /\ l.last \notin {"const", "op"})
       THEN PImplicitFrom(s, FALSE, l, l.i)
  ELSE Parsed(l.v, l.i, l.nt)

\* the node of a unary operator c, once its operand r is parsed
UnaryJoin(c, r) ==
  IF r.st # "ok" THEN r
  ELSE Parsed(IF c = "-" THEN Negate(r.v) ELSE r.v, r.i, "op")

\* parseUnary
PUnary(s, i) ==
  IF CharAt(s, i) \in {"+", "-"}
  THEN UnaryJoin(CharAt(s, i), PUnary(s, i + 1))
  ELSE PPow(s, i)

\* parsePow: right associative, the exponent is a unary
PPow(s, i) == PPowRest(s, PPrimary(s, i))

PPowRest(s, l) ==
  IF l.st = "ok" /\ OpAt(s, l.i).op = "^"
  THEN Join("^", l, PUnary(s, l.i + OpAt(s, l.i).len))
  ELSE l

\* the end of a parenthesised expression a: ")" and no accessor after it
CloseParen(s, a) ==
  IF a.st # "ok" THEN a
  ELSE IF CharAt(s, a.i) # ")" THEN SyntaxErr
  ELSE IF AccessorAt(s, a.i + 1) THEN GiveUp
  ELSE Parsed(a.v, a.i + 1, "other")

\* the call of the function name on the parsed argument list a
CallJoin(name, a) ==
  IF name = <<>> \/ a.st # "ok" THEN a
  ELSE Parsed(Call(name, a.v), a.i, "other")

\* parseSymbol (with the call of parseAccessors), parseNumber,
\* parseParentheses, parseEnd; j is the end of the name that starts at
\* i, i - 1 when none does
PPrimaryNamed(s, i, j) ==
  IF j >= i /\ CharAt(s, j + 1) = "(" /\ CharAt(s, j + 2) = ")"
  THEN (IF AccessorAt(s, j + 3) THEN GiveUp
        ELSE Parsed(IF SubSeq(s, i, j) \in KnownFunctions THEN Thrown ELSE Unm,
                    j + 3, "other"))
  ELSE IF CharAt(s, j + 1) = "("
       THEN CallJoin(SubSeq(s, i, j), CloseParen(s, PAddSub(s, j + 2)))
  ELSE IF j >= i
       THEN (IF AccessorAt(s, j + 1) THEN GiveUp
             ELSE Parsed(Symbol(SubSeq(s, i, j)), j + 1, "other"))
  ELSE IF NumberStarts(s, i) THEN NumberToken(s, i)
  ELSE SyntaxErr

PPrimary(s, i) ==
  PPrimaryNamed(s, i, IF IsAlpha(CharAt(s, i)) THEN NameEnd(s, i) ELSE i - 1)

\* the characters the parser above follows
MathChars ==
  Letters \cup {DigitChars[k] : k \in 1..10}
  \cup {".", "+", "-", "*", "/", "^", "(", ")"}

\* the value of the text t parsed as r, to its end
Outcome(t, r) ==
  IF \E k \in 1..Len(t) : t[k] \notin MathChars THEN Unm
  ELSE IF r.st = "giveup" THEN Unm
  ELSE IF r.st = "syn" \/ r.i # Len(t) + 1 THEN Thrown
  ELSE r.v

\* mathjs evaluate(mathExpr): a value, or Thrown for an error it raises
\* (syntax or evaluation), or Unm
evaluate(mathExpr) == Outcome(Trim(mathExpr), PAddSub(Trim(mathExpr), 1))

(***************************************************************************)
(* The calculator: formatResult, calculateResult and the handlers, each a  *)
(* function from the state it reads to the state it sets.                  *)
(***************************************************************************)
Error == Str("Error")

\* the text standing for the result of an evaluation outside the model
Unmodelled == <<"?">>

\* 1e10 and 1e-6, the thresholds of formatResult
Huge == MkNum(FALSE, <<1>>, 10)
Tiny == MkNum(FALSE, <<1>>, -6)

\* isFinite(value): the value coerced to a number is finite
isFinite(value) == value.k = "num"

\* formatResult without the test of isFinite
formatResult_NoFiniteTest(value) ==
  IF value.k = "unm" THEN Unmodelled
  ELSE IF value.k # "num" THEN Str("Infinity")
  ELSE IF CmpAbs(value, Huge) >= 0 \/ (CmpAbs(value, Tiny) < 0 /\ ~IsZero(value))
       THEN toExponential(value, 6)
  ELSE format(value, 10)

formatResult(value) ==
  IF value.k = "unm" THEN Unmodelled
  ELSE IF ~isFinite(value) THEN Error
  ELSE IF CmpAbs(value, Huge) >= 0 \/ (CmpAbs(value, Tiny) < 0 /\ ~IsZero(value))
       THEN toExponential(value, 6)
  ELSE format(value, 10)

\* the chain of replacements of calculateResult, in its order
Translate(expr) ==
  LET r1 == ReplaceAll(expr, <<TIMES>>, <<"*">>)
      r2 == ReplaceAll(r1, <<DIVIDE>>, <<"/">>)
      r3 == ReplaceAll(r2, <<MINUS>>, <<"-">>)
      r4 == ReplaceAll(r3, <<PI>>, Str("pi"))
      r5 == ReplaceAll(r4, Str("e"), Str("e"))
      r6 == ReplaceAll(r5, <<SQRT>>, Str("sqrt"))
      r7 == ReplaceAll(r6, <<"x", SUP2>>, Str("^2"))
      r8 == ReplaceAll(r7, <<"x", "^", "y">>, <<"^">>)
      f1 == ReplaceAll(r8, Str("sin"), Str("sin"))
      f2 == ReplaceAll(f1, Str("cos"), Str("cos"))
      f3 == ReplaceAll(f2, Str("tan"), Str("tan"))
      f4 == ReplaceAll(f3, Str("ln"), Str("log"))
      f5 == ReplaceAll(f4, Str("log"), Str("log10"))
  IN  f5

\* calculateResult without the test for an empty expression
calculateResult_NoEmptyCheck(expr) ==
  With(evaluate(Translate(expr)), LAMBDA result :
    IF result.k = "throw" THEN Error ELSE formatResult(result))

calculateResult(expr) ==
  IF Trim(expr) = <<>> THEN <<"0">>
  ELSE With(evaluate(Translate(expr)), LAMBDA result :
         IF result.k = "throw" THEN Error ELSE formatResult(result))

\* updateExpression without the assignment of hasError
updateExpression_KeepsFlag(st, newExpr) ==
  [st EXCEPT !.expression = newExpr, !.result = calculateResult(newExpr)]

updateExpression(st, newExpr) ==
  With(calculateResult(newExpr), LAMBDA result :
    [st EXCEPT !.expression = newExpr,
               !.result = result,
               !.hasError = (result = Error)])

handleNumber(st, num) == updateExpression(st, st.expression \o num)

Operators == {"+", MINUS, TIMES, DIVIDE}

\* handleOperator without the replacement of a trailing operator
handleOperator_Appends(st, op) == updateExpression(st, st.expression \o <<op>>)

\* handleOperator comparing the last character with the keys + - * /
\* in place of the glyphs
handleOperator_KeyCharacters(st, op) ==
  LET lastChar == LastChar(st.expression)
  IN  IF lastChar # <<>> /\ lastChar[1] \in {"+", "-", "*", "/"} /\ op \in Operators
      THEN updateExpression(st, DropLast(st.expression) \o <<op>>)
      ELSE updateExpression(st, st.expression \o <<op>>)

handleOperator(st, op) ==
  LET lastChar == LastChar(st.expression)
  IN  IF lastChar # <<>> /\ lastChar[1] \in Operators /\ op \in Operators
      THEN updateExpression(st, DropLast(st.expression) \o <<op>>)
      ELSE updateExpression(st, st.expression \o <<op>>)

\* the labels of the buttons x-squared and x^y
SquareButton == <<"x", SUP2>>
PowerButton == <<"x", "^", "y">>

needsParentheses == {Str("sin"), Str("cos"), Str("tan"), Str("ln"), Str("log"), <<SQRT>>}

handleScientificFunction(st, func) ==
  IF func = SquareButton THEN updateExpression(st, st.expression \o Str("^2"))
  ELSE IF func = PowerButton THEN updateExpression(st, st.expression \o <<"^">>)
  ELSE IF func \in needsParentheses
       THEN updateExpression(st, st.expression \o func \o <<"(">>)
  ELSE updateExpression(st, st.expression \o func)

handleParenthesis(st, paren) == updateExpression(st, st.expression \o <<paren>>)

\* the last element of expression.split(/[+\-*/]/) over the glyphs + U+2212 U+00D7 U+00F7
RECURSIVE LastPartFrom(_, _)
LastPartFrom(s, i) ==
  IF i = 0 \/ s[i] \in Operators THEN Sub(s, i + 1, Len(s))
  ELSE LastPartFrom(s, i - 1)

LastPart(s) == LastPartFrom(s, Len(s))

\* handleDecimal looking for a point in the whole expression
handleDecimal_WholeExpression(st) ==
  IF ~Includes(st.expression, ".")
  THEN updateExpression(st, st.expression \o <<".">>)
  ELSE st

handleDecimal(st) ==
  IF ~Includes(LastPart(st.expression), ".")
  THEN updateExpression(st, st.expression \o <<".">>)
  ELSE st

\* handleBackspace without the slice: the text is evaluated again as it is
handleBackspace_KeepsText(st) == updateExpression(st, st.expression)

handleBackspace(st) == updateExpression(st, DropLast(st.expression))

\* handleClearAll resetting the memory as well
handleClearAll_ClearsMemory(st) ==
  [st EXCEPT !.expression = <<>>, !.result = <<"0">>, !.hasError = FALSE,
             !.memory = Zero]

handleClearAll(st) ==
  [st EXCEPT !.expression = <<>>, !.result = <<"0">>, !.hasError = FALSE]

\* handleCalculate without the early return, storing every result
handleCalculate_NoGuard(st) ==
  With(calculateResult(st.expression), LAMBDA result :
    [st EXCEPT !.expression = result,
               !.result = result,
               !.hasError = (result = Error)])

\* handleCalculate storing the result without replacing the expression
handleCalculate_KeepsExpression(st) ==
  IF st.hasError THEN st
  ELSE With(calculateResult(st.expression), LAMBDA result :
         [st EXCEPT !.result = result, !.hasError = (result = Error)])

handleCalculate(st) ==
  IF st.hasError THEN st
  ELSE With(calculateResult(st.expression), LAMBDA result :
         [st EXCEPT !.expression = IF result = Error THEN @ ELSE result,
                    !.result = result,
                    !.hasError = (result = Error)])

\* handleMemoryFunction with MR storing the result in memory
handleMemoryFunction_RecallStores(st, func) ==
  With(parseFloat(st.result), LAMBDA currentResult :
    IF func = "MR" /\ currentResult.k # "nan"
    THEN [st EXCEPT !.memory = currentResult]
    ELSE IF func = "MC" THEN [st EXCEPT !.memory = Zero]
    ELSE st)

\* handleMemoryFunction without the test of isNaN before M+ and M-
handleMemoryFunction_NoNaNTest(st, func) ==
  With(parseFloat(st.result), LAMBDA currentResult :
    CASE func = "MC" -> [st EXCEPT !.memory = Zero]
      [] func = "MR" ->
           updateExpression(st, st.expression \o NumberToString(st.memory))
      [] func \in {"M+", "M-"} ->
           IF currentResult.k = "nan" THEN [st EXCEPT !.memory = NaN]
           ELSE IF func = "M+" THEN [st EXCEPT !.memory = DecAdd(@, currentResult)]
           ELSE [st EXCEPT !.memory = DecSub(@, currentResult)]
      [] OTHER -> st)

handleMemoryFunction(st, func) ==
  With(parseFloat(st.result), LAMBDA currentResult :
    CASE func = "MC" -> [st EXCEPT !.memory = Zero]
      [] func = "MR" ->
           updateExpression(st, st.expression \o NumberToString(st.memory))
      [] func = "M+" ->
           IF currentResult.k # "nan"
           THEN [st EXCEPT !.memory = DecAdd(@, currentResult)]
           ELSE st
      [] func = "M-" ->
           IF currentResult.k # "nan"
           THEN [st EXCEPT !.memory = DecSub(@, currentResult)]
           ELSE st
      [] OTHER -> st)

\* /[0-9]/.test(key)
HasDigit(key) == \E k \in 1..Len(key) : IsDigit(key[k])

\* key.toLowerCase() for the keys of the model
ToLowerCase(key) == [k \in 1..Len(key) |-> IF key[k] = "C" THEN "c" ELSE key[k]]

Enter == <<"E", "n", "t", "e", "r">>
BackspaceKey == <<"B", "a", "c", "k", "s", "p", "a", "c", "e">>
Escape == <<"E", "s", "c", "a", "p", "e">>

\* handleKeyDown passing the key "-" itself to handleOperator
handleKeyDown_AsciiMinus(st, key) ==
  IF HasDigit(key) THEN handleNumber(st, key)
  ELSE IF key \in {<<"+">>, <<"-">>} THEN handleOperator(st, key[1])
  ELSE IF key = <<"*">> THEN handleOperator(st, TIMES)
  ELSE IF key = <<"/">> THEN handleOperator(st, DIVIDE)
  ELSE IF key = <<".">> THEN handleDecimal(st)
  ELSE IF key = <<"(">> \/ key = <<")">> THEN handleParenthesis(st, key[1])
  ELSE IF key = Enter \/ key = <<"=">> THEN handleCalculate(st)
  ELSE IF key = BackspaceKey THEN handleBackspace(st)
  ELSE IF key = Escape \/ ToLowerCase(key) = <<"c">> THEN handleClearAll(st)
  ELSE st

handleKeyDown(st, key) ==
  IF HasDigit(key) THEN handleNumber(st, key)
  ELSE IF key = <<"+">> THEN handleOperator(st, "+")
  ELSE IF key = <<"-">> THEN handleOperator(st, MINUS)
  ELSE IF key = <<"*">> THEN handleOperator(st, TIMES)
  ELSE IF key = <<"/">> THEN handleOperator(st, DIVIDE)
  ELSE IF key = <<".">> THEN handleDecimal(st)
  ELSE IF key = <<"(">> \/ key = <<")">> THEN handleParenthesis(st, key[1])
  ELSE IF key = Enter \/ key = <<"=">> THEN handleCalculate(st)
  ELSE IF key = BackspaceKey THEN handleBackspace(st)
  ELSE IF key = Escape \/ ToLowerCase(key) = <<"c">> THEN handleClearAll(st)
  ELSE st

(***************************************************************************)
(* The state machine.  state is the CalculatorState of useState.  Each     *)
(* event runs its handler to the end before the next one is taken.         *)
(***************************************************************************)
VARIABLES state

vars == <<state>>

\* the argument of useState
InitialState ==
  [expression |-> <<>>, result |-> <<"0">>, memory |-> Zero, hasError |-> FALSE]

\* the inputs of the model
DigitInputs == {"0", "5"}
FuncInputs == {Str("ln"), Str("log"), <<SQRT>>, SquareButton, PowerButton}
ParenInputs == {"(", ")"}
MemoryInputs == {"MC", "MR", "M+", "M-"}
MappedKeys ==
  {<<d>> : d \in DigitInputs}
  \cup {<<"+">>, <<"-">>, <<"*">>, <<"/">>, <<".">>, <<"(">>, <<")">>,
        Enter, <<"=">>, BackspaceKey, Escape, <<"c">>}
OtherKeys ==
  {<<"F", "1">>, <<"C">>, <<"a">>, <<"S", "h", "i", "f", "t">>, <<"T", "a", "b">>}
KeyInputs == MappedKeys \cup OtherKeys

Half == MkNum(FALSE, <<5>>, -1)

\* v is a whole number of halves: sums and differences of such numbers
\* are exact in a double, as they are in the decimals of the model
Halves(v) == IsZero(v) \/ v.ex >= 0 \/ (v.ex = -1 /\ v.ds[Len(v.ds)] = 5)

\* the memory keys within the model: memory stays a number of halves of
\* bounded magnitude
MemoryModelled(st, new) ==
  \/ new.memory = st.memory
  \/ /\ Halves(new.memory)
     /\ Halves(st.memory)
     /\ CmpAbs(new.memory, DecMul(FromInt(MaxMemHalves), Half)) <= 0

\* the states the model follows: the expression evaluates inside the
\* model, and an edit lengthens it to MaxLen characters at most
Modelled(st, new) ==
  /\ new.result # Unmodelled
  /\ \/ Len(new.expression) <= MaxLen
     \/ Len(new.expression) <= Len(st.expression)
     \/ new.expression = st.result
  /\ MemoryModelled(st, new)

Step(new) == IF Modelled(state, new) THEN state' = new ELSE FALSE

Init == state = InitialState

Number == \E d \in DigitInputs : Step(handleNumber(state, <<d>>))

Operator == \E op \in Operators : Step(handleOperator(state, op))

ScientificFunction == \E f \in FuncInputs : Step(handleScientificFunction(state, f))

Parenthesis == \E p \in ParenInputs : Step(handleParenthesis(state, p))

Decimal == Step(handleDecimal(state))

Backspace == Step(handleBackspace(state))

ClearAll == Step(handleClearAll(state))

Calculate == Step(handleCalculate(state))

MemoryFunction == \E f \in MemoryInputs : Step(handleMemoryFunction(state, f))

KeyDown == \E key \in KeyInputs : Step(handleKeyDown(state, key))

Next ==
  \/ Number
  \/ Operator
  \/ ScientificFunction
  \/ Parenthesis
  \/ Decimal
  \/ Backspace
  \/ ClearAll
  \/ Calculate
  \/ MemoryFunction
  \/ KeyDown

Spec == Init /\ [][Next]_vars

(***************************************************************************)
(* Sessions.  A click on a button of the keypad runs the handler wired to  *)
(* it; a session is a sequence of clicks from the initial state.  The      *)
(* second specification starts where one of the sessions below has led,    *)
(* and goes on with the same events.                                       *)
(***************************************************************************)
AC == "AC"
DEL == "DEL"

Click(st, b) ==
  IF b \in {"MC", "MR", "M+", "M-"} THEN handleMemoryFunction(st, b)
  ELSE IF b = AC THEN handleClearAll(st)
  ELSE IF b \in {"sin", "cos", "tan", "ln", "log", SQRT, "x2", "xy"}
       THEN handleScientificFunction(st,
              IF b = "x2" THEN SquareButton
              ELSE IF b = "xy" THEN PowerButton
              ELSE Str(b))
  ELSE IF b \in {"(", ")"} THEN handleParenthesis(st, b)
  ELSE IF IsDigit(b) THEN handleNumber(st, <<b>>)
  ELSE IF b \in Operators THEN handleOperator(st, b)
  ELSE IF b = "." THEN handleDecimal(st)
  ELSE IF b = DEL THEN handleBackspace(st)
  ELSE IF b = "=" THEN handleCalculate(st)
  ELSE st

RECURSIVE RunFrom(_, _, _)
RunFrom(st, clicks, i) ==
  IF i > Len(clicks) THEN st ELSE RunFrom(Click(st, clicks[i]), clicks, i + 1)

Run(clicks) == RunFrom(InitialState, clicks, 1)

\* the sessions: none, one whose value rounds to "1e+10", a sum of
\* decimals, a division by zero, a number kept in memory after clear-all,
\* an unfinished logarithm, a hundred thousand, the logarithm of ten,
\* a decimal recalled from memory after itself
Sessions ==
  { <<>>,
    <<"1", "0", "xy", "1", "0", MINUS, ".", "5">>,
    <<"5", ".", "5", "+", "5">>,
    <<"5", DIVIDE, "0">>,
    <<"5", "M+", AC>>,
    <<"ln", "5", "0", "+">>,
    <<"1", "0", "0", "0", "0", "0">>,
    <<"ln", "1", "0", ")">>,
    <<".", "5", "M+", "MR">> }

InitSession == state \in {Run(clicks) : clicks \in Sessions}

SpecSession == InitSession /\ [][Next]_vars

(***************************************************************************)
(* Arithmetic expressions.  An expression of digits, + - * / and           *)
(* parentheses is the text of a tree: <<"n", d>> is the digit d, and       *)
(* <<op, l, r>> the operator op between the trees l and r.  The text has   *)
(* parentheses where the grouping of the tree is not the one that          *)
(* precedence and left-to-right grouping give; the value is computed on    *)
(* the tree.  The third specification starts where the clicks of such a    *)
(* text have led.                                                          *)
(***************************************************************************)
\* the digits of the expressions: every quotient of them has finitely many
\* decimals
Leaves == {"2", "4", "5"}
ArithOps == {"+", "-", "*", "/"}

Digit(d) == <<"n", d>>
Sums == {<<op, Digit(a), Digit(b)>> : op \in ArithOps, a \in Leaves, b \in Leaves}
Trees ==
  {Digit(d) : d \in Leaves}
  \cup Sums
  \cup {<<op, l, Digit(c)>> : op \in ArithOps, l \in Sums, c \in Leaves}
  \cup {<<op, Digit(a), r>> : op \in ArithOps, a \in Leaves, r \in Sums}

\* the precedence of the operator at the root of a tree
Precedence(t) ==
  IF t[1] = "n" THEN 3 ELSE IF t[1] \in {"*", "/"} THEN 2 ELSE 1

\* the operators as typed for the evaluator, and as shown on the keypad
Ascii == [op \in ArithOps |-> op]
Glyphs == [op \in ArithOps |->
            CASE op = "+" -> "+" [] op = "-" -> MINUS
              [] op = "*" -> TIMES [] op = "/" -> DIVIDE]

Parenthesised(text, needed) ==
  IF needed THEN <<"(">> \o text \o <<")">> ELSE text

RECURSIVE Show(_, _)
Show(t, ops) ==
  IF t[1] = "n" THEN <<t[2]>>
  ELSE Parenthesised(Show(t[2], ops), Precedence(t[2]) < Precedence(t))
       \o <<ops[t[1]]>>
       \o Parenthesised(Show(t[3], ops), Precedence(t[3]) <= Precedence(t))

\* standard evaluation: the operands first, then the operator
RECURSIVE Value(_)
Value(t) ==
  IF t[1] = "n" THEN FromInt(DigitVal(t[2]))
  ELSE BinOp(t[1], Value(t[2]), Value(t[3]))

\* the valid expressions: those with a finite value
ValidTrees == {t \in Trees : Value(t).k = "num"}

\* text as typed, text as shown, and value of each valid expression
Expressions ==
  {[ascii |-> Show(t, Ascii), shown |-> Show(t, Glyphs), value |-> Value(t)] :
     t \in ValidTrees}

InitInfix == state \in {Run(e.shown) : e \in Expressions}

SpecInfix == InitInfix /\ [][Next]_vars

(***************************************************************************)
(* Properties.                                                             *)
(***************************************************************************)

\* C1: in every reachable state, hasError is true if and only if result
\* is the string "Error".
HasErrorIffResultIsError == state.hasError <=> (state.result = Error)

\* an expression has been typed and its evaluation failed
ErrorShown ==
  state.expression # <<>> /\ state.hasError /\ state.result = Error

\* C3: when hasError is true '=' leaves expression, result, memory and
\* hasError as they are, and '=' never makes the expression "Error".
CalculateInErrorIsNoOp ==
  /\ state.hasError => handleCalculate(state) = state
  /\ handleCalculate(state).expression # Error

\* '=' is pressed on an expression whose evaluation failed
CalculatePressedInError ==
  /\ state.hasError
  /\ state.expression = <<"5", DIVIDE, "0">>
  /\ handleCalculate(state) = state

\* C4: an operator replaces the last character of the expression when
\* that character is one of + U+2212 U+00D7 U+00F7, and is appended
\* otherwise.
OperatorReplacesOrAppends ==
  \A op \in {"+", MINUS, TIMES, DIVIDE} :
    LET e == state.expression
        n == Len(e)
    IN  handleOperator(state, op).expression =
          IF n > 0 /\ e[n] \in {"+", MINUS, TIMES, DIVIDE}
          THEN SubSeq(e, 1, n - 1) \o <<op>>
          ELSE e \o <<op>>

\* from "5+" the operator U+00D7 gives "5" U+00D7
OperatorCollision ==
  /\ state.expression = <<"5", "+">>
  /\ handleOperator(state, TIMES).expression = <<"5", TIMES>>

\* C5: the decimal point leaves the whole state unchanged exactly when
\* the text after the last operator of the expression contains a point,
\* and is appended to the expression otherwise.
DecimalRejectedIffSegmentHasPoint ==
  LET e == state.expression
      segmentHasPoint ==
        \E i \in 1..Len(e) :
          /\ e[i] = "."
          /\ \A j \in i..Len(e) : e[j] \notin {"+", MINUS, TIMES, DIVIDE}
  IN  IF segmentHasPoint
      THEN handleDecimal(state) = state
      ELSE /\ handleDecimal(state).expression = e \o <<".">>
           /\ handleDecimal(state) # state

\* a second point after "5." is rejected
DecimalRejected ==
  /\ state.expression = <<"5", ".">>
  /\ handleDecimal(state) = state

\* C6: clear-all empties the expression, makes the result "0" and
\* hasError false, and leaves the memory as it was.
ClearAllKeepsMemory ==
  LET new == handleClearAll(state)
  IN  /\ new.expression = <<>>
      /\ new.result = <<"0">>
      /\ new.hasError = FALSE
      /\ new.memory = state.memory

\* clear-all pressed with a number in memory and an expression in error
ClearAllWithMemory ==
  /\ state.memory # Zero
  /\ state.expression # <<>>
  /\ state.hasError
  /\ handleClearAll(state).memory = state.memory

\* C7: every operation other than MC, M+ and M- leaves the memory
\* unchanged.
MemoryChangedOnlyByMemoryKeys ==
  /\ \A d \in DigitInputs : handleNumber(state, <<d>>).memory = state.memory
  /\ \A op \in Operators : handleOperator(state, op).memory = state.memory
  /\ \A f \in FuncInputs :
       handleScientificFunction(state, f).memory = state.memory
  /\ \A p \in ParenInputs : handleParenthesis(state, p).memory = state.memory
  /\ handleDecimal(state).memory = state.memory
  /\ handleBackspace(state).memory = state.memory
  /\ handleClearAll(state).memory = state.memory
  /\ handleCalculate(state).memory = state.memory
  /\ handleMemoryFunction(state, "MR").memory = state.memory
  /\ \A key \in KeyInputs : handleKeyDown(state, key).memory = state.memory

\* MR pressed with a number in memory that differs from the result
RecallWithMemory ==
  /\ state.memory # Zero
  /\ parseFloat(state.result).k # "nan"
  /\ parseFloat(state.result) # state.memory
  /\ handleMemoryFunction(state, "MR").expression # state.expression
  /\ handleMemoryFunction(state, "MR").memory = state.memory

\* C2: in every reachable state the result is the evaluation of the
\* expression ("0" for the empty expression), after '=' as after every
\* other operation.
ResultIsEvaluationOfExpression ==
  state.result = calculateResult(state.expression)

\* C8: a key outside 0-9 + - * / . ( ) Enter = Backspace Escape c
\* leaves the state unchanged.
OtherKeysLeaveStateUnchanged ==
  \A key \in OtherKeys : handleKeyDown(state, key) = state

\* the button a mapped key stands for
ButtonOfKey(key) ==
  CASE key = <<"-">> -> MINUS
    [] key = <<"*">> -> TIMES
    [] key = <<"/">> -> DIVIDE
    [] key \in {Enter, <<"=">>} -> "="
    [] key = BackspaceKey -> DEL
    [] key \in {Escape, <<"c">>} -> AC
    [] OTHER -> key[1]

\* C9: a mapped key gives the state that a click on the button it stands
\* for gives.
KeysMatchButtons ==
  \A key \in MappedKeys :
    handleKeyDown(state, key) = Click(state, ButtonOfKey(key))

\* the key "-" on the expression "5" gives "5" U+2212, as the button does
MinusKeyPressed ==
  /\ state.expression = <<"5">>
  /\ handleKeyDown(state, <<"-">>).expression = <<"5", MINUS>>
  /\ handleKeyDown(state, <<"-">>) = Click(state, MINUS)

\* C10: calculateResult gives a text for every expression: "0" for an
\* empty or blank one, "Error" when the evaluator raises or its value is
\* not a finite number.
CalculateResultIsErrorBoundary ==
  /\ \A blank \in {<<>>, <<" ">>, <<" ", " ">>} :
       calculateResult(blank) = <<"0">>
  /\ \A expr \in {state.expression, <<" ">> \o state.expression \o <<" ">>} :
       /\ DOMAIN calculateResult(expr) = 1..Len(calculateResult(expr))
       /\ Len(calculateResult(expr)) > 0
       /\ Trim(expr) = <<>> => calculateResult(expr) = <<"0">>
       /\ (Trim(expr) # <<>> /\ evaluate(Translate(expr)).k \notin {"num", "unm"})
            => calculateResult(expr) = Error

\* the evaluator raises on "5+", and the value of "5" U+00F7 "0" is
\* infinite
EvaluatorRaised ==
  /\ state.expression = <<"5", "+">>
  /\ evaluate(Translate(state.expression)).k = "throw"
  /\ evaluate(Translate(<<"5", DIVIDE, "0">>)).k = "inf"
  /\ state.result = Error

\* the state after the clicks 5, U+00F7, 0 from the initial state
DivisionByZeroSession == Run(<<"5", DIVIDE, "0">>)

\* the value of the expression is a number that is not finite
NonFinite(expr) ==
  Trim(expr) # <<>> /\ evaluate(Translate(expr)).k \in {"inf", "nan"}

\* C11: after 5, U+00F7, 0 from the initial state the expression is
\* "5" U+00F7 "0", the result "Error" and hasError true; an edit (a digit,
\* a closing parenthesis, backspace) whose expression evaluates to a value
\* that is not finite gives the result "Error" and hasError true, with the
\* edited text as the expression.
NonFiniteValueIsError ==
  /\ DivisionByZeroSession.expression = <<"5", DIVIDE, "0">>
  /\ DivisionByZeroSession.result = Error
  /\ DivisionByZeroSession.hasError = TRUE
  /\ \A edit \in {state.expression \o <<"0">>, state.expression \o <<")">>,
                   DropLast(state.expression)} :
       NonFinite(edit) =>
         /\ updateExpression(state, edit).result = Error
         /\ updateExpression(state, edit).hasError = TRUE
         /\ updateExpression(state, edit).expression = edit
  /\ handleNumber(state, <<"0">>).expression = state.expression \o <<"0">>
  /\ NonFinite(state.expression) => state.result = Error /\ state.hasError

\* the digit 0 after "5" U+00F7 gives an infinite value, shown as "Error"
DividedByZero ==
  /\ state.expression = <<"5", DIVIDE>>
  /\ NonFinite(handleNumber(state, <<"0">>).expression)
  /\ handleNumber(state, <<"0">>).result = Error
  /\ handleNumber(state, <<"0">>).hasError

\* a value of the type CalculatorState
IsState(st) ==
  /\ DOMAIN st = {"expression", "result", "memory", "hasError"}
  /\ DOMAIN st.expression = 1..Len(st.expression)
  /\ Len(st.result) > 0
  /\ st.memory.k = "num"
  /\ st.hasError \in BOOLEAN

\* backspace pressed n times at most leads to a state without error
RECURSIVE RecoversWithin(_, _)
RecoversWithin(st, n) ==
  IF ~st.hasError /\ st.result # Unmodelled THEN TRUE
  ELSE IF n = 0 THEN FALSE
  ELSE RecoversWithin(handleBackspace(st), n - 1)

\* C12: no state is terminal (clear-all is enabled, and a digit leads to
\* another state), every operation gives a state in every reachable
\* state, and from a state with hasError true the editing operations
\* alone (backspace, once for each character at most) lead to a state
\* with hasError false.
EditableAfterError ==
  /\ ENABLED ClearAll
  /\ LET new == handleNumber(state, <<"5">>)
     IN  IsState(new) /\ new # state
  /\ IsState(handleOperator(state, DIVIDE))
  /\ IsState(handleScientificFunction(state, <<SQRT>>))
  /\ IsState(handleParenthesis(state, ")"))
  /\ IsState(handleDecimal(state))
  /\ IsState(handleBackspace(state))
  /\ IsState(handleClearAll(state))
  /\ IsState(handleCalculate(state))
  /\ IsState(handleMemoryFunction(state, "MR"))
  /\ state.hasError => RecoversWithin(state, Len(state.expression))

\* from U+00F7 "5" one backspace leaves the error, a second removes it
RecoveredByBackspace ==
  /\ state.expression = <<DIVIDE, "5">>
  /\ state.hasError
  /\ handleBackspace(state).hasError
  /\ ~handleBackspace(handleBackspace(state)).hasError
  /\ handleBackspace(handleBackspace(state)).expression = <<>>

\* the text is in exponential notation
IsExponential(text) == Includes(text, "e")

\* the magnitudes for which formatResult calls toExponential
BeyondThresholds(value) ==
  CmpAbs(value, Huge) >= 0 \/ (CmpAbs(value, Tiny) < 0 /\ ~IsZero(value))

\* C13: formatResult gives "Error" for a value that is not finite,
\* exponential notation for a value with |value| >= 10^10 or
\* 0 < |value| < 10^-6, and fixed notation for every other value;
\* 9999999999 and 0.001 are fixed, 10000000000 and 0.0000001 exponential.
NotationChosenByMagnitude ==
  /\ formatResult(Inf(FALSE)) = Error
  /\ formatResult(NaN) = Error
  /\ IsExponential(formatResult(MkNum(FALSE, <<1>>, 10)))
  /\ IsExponential(formatResult(MkNum(FALSE, <<1>>, -7)))
  /\ ~IsExponential(formatResult(MkNum(FALSE, <<1>>, -3)))
  /\ LET value == evaluate(Translate(state.expression))
     IN  (Trim(state.expression) # <<>> /\ value.k = "num") =>
           (IsExponential(formatResult(value)) <=> BeyondThresholds(value))
  /\ ~IsExponential(formatResult(MkNum(FALSE, <<9, 9, 9, 9, 9, 9, 9, 9, 9, 9>>, 0)))

\* C14: for an expression of digits, + - * / and parentheses the
\* evaluator returns the value of standard infix evaluation ("2+3*4"
\* gives "14"), and so it does after the translation of the expression
\* entered with the glyphs U+00D7, U+00F7, U+2212.
EvaluateIsInfixEvaluation ==
  /\ formatResult(evaluate(<<"2", "+", "3", "*", "4">>)) = <<"1", "4">>
  /\ \A e \in Expressions :
       e.shown = state.expression =>
         /\ evaluate(e.ascii) = e.value
         /\ Translate(e.shown) = e.ascii
         /\ evaluate(Translate(state.expression)) = e.value
         /\ state.result = formatResult(e.value)

\* "2+4" U+00D7 "5" has been entered and shows 22, not 30; "2-4+5" is 3,
\* not -7
PrecedenceApplied ==
  /\ state.expression = <<"2", "+", "4", TIMES, "5">>
  /\ state.result = <<"2", "2">>
  /\ evaluate(<<"2", "-", "4", "+", "5">>) = FromInt(3)

\* C15: in a state with hasError false '=' makes the expression and the
\* result the formatted evaluation of the old expression ("0" for the
\* empty one), with hasError false and the memory unchanged.
CalculateReplacesExpression ==
  ~state.hasError =>
    LET new == handleCalculate(state)
    IN  /\ new.result = calculateResult(state.expression)
        /\ new.expression = new.result
        /\ new.hasError = FALSE
        /\ new.memory = state.memory
        /\ state.expression = <<>> => new.expression = <<"0">>

\* '=' pressed on "5.5+5" makes the expression "10.5"
SumCalculated ==
  /\ state.expression = <<"5", ".", "5", "+", "5">>
  /\ ~state.hasError
  /\ handleCalculate(state).expression = <<"1", "0", ".", "5">>
  /\ handleCalculate(state).result = <<"1", "0", ".", "5">>

\* C16: the translation substitutes each display token once: with the
\* expression of the state as the argument x, "ln(x" reaches the
\* evaluator as "log(x", "log(x" reaches it as "log10(x", and the two
\* texts differ.
EachTokenSubstitutedOnce ==
  LET x == state.expression
      natural == Translate(Str("ln") \o <<"(">> \o x)
      decimal == Translate(Str("log") \o <<"(">> \o x)
  IN  /\ natural = Str("log") \o <<"(">> \o Translate(x)
      /\ decimal = Str("log10") \o <<"(">> \o Translate(x)
      /\ natural # decimal

\* no two adjacent characters of the text are operators
NoAdjacentOperators(text) ==
  \A i \in 1..(Len(text) - 1) :
    ~(text[i] \in Operators /\ text[i + 1] \in Operators)

\* C17: the expression of a reachable state has no two adjacent
\* characters of + U+2212 U+00D7 U+00F7, and neither has the expression
\* that an operator, MR or '=' makes of it.
ExpressionHasNoAdjacentOperators ==
  /\ NoAdjacentOperators(state.expression)
  /\ \A op \in Operators :
       NoAdjacentOperators(handleOperator(state, op).expression)
  /\ NoAdjacentOperators(handleMemoryFunction(state, "MR").expression)
  /\ NoAdjacentOperators(handleCalculate(state).expression)

\* MR after "5+" with -0.5 in memory appends "-0.5", whose sign is the
\* character "-" and not the operator U+2212
NegativeRecalledAfterOperator ==
  /\ state.expression = <<"5", "+">>
  /\ state.memory = MkNum(TRUE, <<5>>, -1)
  /\ handleMemoryFunction(state, "MR").expression =
       <<"5", "+", "-", "0", ".", "5">>
  /\ handleOperator(state, MINUS).expression = <<"5", MINUS>>

\* C18: no numeric segment of the expression of a reachable state (the
\* text between two consecutive operators of + U+2212 U+00D7 U+00F7) has
\* more than one point.
OnePointPerSegment ==
  \A i \in 1..Len(state.expression) :
    \A j \in (i + 1)..Len(state.expression) :
      (state.expression[i] = "." /\ state.expression[j] = ".") =>
        \E k \in (i + 1)..(j - 1) : state.expression[k] \in Operators

\* C19: with hasError true M+ and M- leave the state as it is; with
\* hasError false M+ adds the value of the result to the memory and M-
\* subtracts it, and nothing else changes; MC makes the memory 0 and
\* changes nothing else.
MemoryKeysUseTheResult ==
  /\ state.hasError =>
       /\ handleMemoryFunction(state, "M+") = state
       /\ handleMemoryFunction(state, "M-") = state
  /\ ~state.hasError =>
       /\ handleMemoryFunction(state, "M+") =
            [state EXCEPT !.memory = DecAdd(@, evaluate(state.result))]
       /\ handleMemoryFunction(state, "M-") =
            [state EXCEPT !.memory = DecSub(@, evaluate(state.result))]
  /\ handleMemoryFunction(state, "MC") = [state EXCEPT !.memory = Zero]

\* M+ and M- pressed on an expression in error with 0.5 in memory
MemoryKeyPressedInError ==
  /\ state.hasError
  /\ state.result = Error
  /\ state.memory = MkNum(FALSE, <<5>>, -1)
  /\ handleMemoryFunction(state, "M+").memory = state.memory
  /\ handleMemoryFunction(state, "M-").memory = state.memory

====
